---- MODULE Spec2Model ----
(***************************************************************************)
(* The QR-code HTTP resource layer of app/routers/qr_code.py: four         *)
(* handlers (create, list, retrieve, delete) over a flat directory of PNG  *)
(* files.  The directory is the only state of the service.                 *)
(*                                                                         *)
(* Spec handles requests one after another, each handler as one action.    *)
(* SpecRace runs two workers on one request each: the existence test of a  *)
(* handler and its write or removal are separate steps there, because the  *)
(* code takes no lock between them.  SpecEnv is Spec plus an external      *)
(* actor that puts entries into the directory.                             *)
(*                                                                         *)
(* Strings are sequences of one-character strings, so that f-string        *)
(* concatenation, fname[:-4] and the filename codec are computed.          *)
(***************************************************************************)
EXTENDS Integers, Sequences, FiniteSets, TLC

VARIABLES
    fs,        \* QR_DIRECTORY: file name -> directory entry
    wk,        \* per worker: position in its handler, request, locals
    log,       \* completed requests, in order of completion, with responses
    genCalls   \* number of calls of generate_qr_code so far

vars == <<fs, wk, log, genCalls>>

----------------------------------------------------------------------------
(* Bounds of the model *)

\* requests accepted in one run of Spec / SpecEnv
MaxOps == 4

\* request sizes are 1..MaxSize
MaxSize == 2

----------------------------------------------------------------------------
(* Configuration (app.config) and strings *)

Workers == {1, 2}

Png == <<".", "p", "n", "g">>

Slash == <<"/">>

SERVER_BASE_URL == <<"h", ":", "/", "/", "s">>

SERVER_DOWNLOAD_FOLDER == <<"d">>

FILL_COLOR == "red"

BACK_COLOR == "white"

\* the URLs requests are made for
URLS == { <<"a">>, <<"a", "/", "b">> }

Sizes == 1..MaxSize

----------------------------------------------------------------------------
(* Filename codec (app.utils.common): every URL character becomes the two  *)
(* hexadecimal digits of its code, a token safe as a path component.       *)

CodeTable ==
    { <<"a", <<"6", "1">> >>,
      <<"b", <<"6", "2">> >>,
      <<"/", <<"2", "f">> >>,
      <<":", <<"3", "a">> >> }

CodeOf(c) == (CHOOSE p \in CodeTable : p[1] = c)[2]

RECURSIVE encode_url_to_filename(_)
encode_url_to_filename(url) ==
    IF url = <<>> THEN <<>>
    ELSE CodeOf(Head(url)) \o encode_url_to_filename(Tail(url))

\* the pairs of digits that stand for a character
IsCode(pair) == \E p \in CodeTable : p[2] = pair

CharOf(pair) == (CHOOSE p \in CodeTable : p[2] = pair)[1]

\* a token some encode produces
RECURSIVE Decodable(_)
Decodable(stem) ==
    \/ stem = <<>>
    \/ /\ Len(stem) >= 2
       /\ IsCode(SubSeq(stem, 1, 2))
       /\ Decodable(SubSeq(stem, 3, Len(stem)))

RECURSIVE DecodePairs(_)
DecodePairs(stem) ==
    IF stem = <<>> THEN <<>>
    ELSE <<CharOf(SubSeq(stem, 1, 2))>> \o DecodePairs(SubSeq(stem, 3, Len(stem)))

\* the decoded URL, or the FormatError it raises
decode_filename_to_url(stem) ==
    IF Decodable(stem)
    THEN [ok |-> TRUE, url |-> DecodePairs(stem)]
    ELSE [ok |-> FALSE, error |-> "FormatError"]

\* f"{encoded}.png"
FileNameOf(url) == encode_url_to_filename(url) \o Png

\* a name no create request of the model produces
UnknownName == FileNameOf(<<"b">>)

\* a .png name whose stem no encode produces
MalformedName == <<"z">> \o Png

Names == { FileNameOf(u) : u \in URLS } \cup { UnknownName, MalformedName }

----------------------------------------------------------------------------
(* Directory entries and the filesystem predicates the handlers call *)

Absent == [kind |-> "absent"]

Directory == [kind |-> "dir"]

ForeignFile == [kind |-> "file", data |-> "foreign"]

\* Path.exists()
PathExists(dir, name) == dir[name].kind # "absent"

\* os.path.isfile / Path.is_file()
PathIsFile(dir, name) == dir[name].kind = "file"

----------------------------------------------------------------------------
(* QR store (app.services.qr_service) and link builder (app.utils.common) *)

\* writes the PNG at the path, whatever is there
generate_qr_code(dir, url, name, fill, back, size) ==
    [dir EXCEPT ![name] =
        [kind |-> "file", data |-> url, box_size |-> size,
         fill |-> fill, back |-> back]]

EndsWith(name, suffix) ==
    /\ Len(name) >= Len(suffix)
    /\ SubSeq(name, Len(name) - Len(suffix) + 1, Len(name)) = suffix

PngNames(dir) == { n \in Names : PathExists(dir, n) /\ EndsWith(n, Png) }

Orderings(S) ==
    { q \in [1..Cardinality(S) -> S] : \A i, j \in 1..Cardinality(S) : q[i] = q[j] => i = j }

\* the .png names of the directory, in any enumeration order
list_qr_codes(dir) == Orderings(PngNames(dir))

\* removes the file; raises NotFoundError when it is not there
delete_qr_code(dir, name) ==
    IF PathIsFile(dir, name)
    THEN [ok |-> TRUE, dir |-> [dir EXCEPT ![name] = Absent]]
    ELSE [ok |-> FALSE, dir |-> dir]

generate_links(action, qr_filename, base_url, download_url) ==
    [action |-> action,
     view |-> download_url,
     delete |-> base_url \o Slash \o <<"q">> \o Slash \o qr_filename]

----------------------------------------------------------------------------
(* Requests *)

CreateReqs == { [op |-> "create", url |-> u, size |-> s] : u \in URLS, s \in Sizes }

ListReqs == { [op |-> "list"] }

\* the names retrieve and delete are asked for: every URL's, and one unknown
ReqNames == { FileNameOf(u) : u \in URLS } \cup { UnknownName }

RetrieveReqs == { [op |-> "retrieve", qr_filename |-> n] : n \in ReqNames }

DeleteReqs == { [op |-> "delete", qr_filename |-> n] : n \in ReqNames }

Requests == CreateReqs \cup ListReqs \cup RetrieveReqs \cup DeleteReqs

EmptyDir == [n \in Names |-> Absent]

----------------------------------------------------------------------------
(* The handlers, each as the outcome of its code on a directory: the       *)
(* directory it leaves, its response, its calls of generate_qr_code.       *)

\* mutant: the download URL names the encoded URL without its extension
download_url_no_ext(name) ==
    SERVER_BASE_URL \o Slash \o SERVER_DOWNLOAD_FOLDER \o Slash
        \o SubSeq(name, 1, Len(name) - 4)

\* f"{SERVER_BASE_URL}/{SERVER_DOWNLOAD_FOLDER}/{qr_filename}"
download_url_of(name) ==
    SERVER_BASE_URL \o Slash \o SERVER_DOWNLOAD_FOLDER \o Slash \o name

CreateLinks(name) ==
    generate_links("create", name, SERVER_BASE_URL, download_url_of(name))

\* the path exists: 409 with a message and the links
Conflict(dir, request) ==
    [dir |-> dir, calls |-> 0,
     resp |-> [status |-> 409, message |-> "QR code already exists.",
               links |-> CreateLinks(FileNameOf(request.url))]]

\* the path does not exist: generate the file, 201 with the download URL
Created(dir, request) ==
    LET qr_filename == FileNameOf(request.url)
    IN [dir |-> generate_qr_code(dir, request.url, qr_filename, FILL_COLOR,
                                 BACK_COLOR, request.size),
        calls |-> 1,
        resp |-> [status |-> 201, message |-> "QR code created successfully.",
                  qr_code_url |-> download_url_of(qr_filename),
                  links |-> CreateLinks(qr_filename)]]

\* mutant: the existence test is left out
create_unchecked(dir, request, exists) == Created(dir, request)

\* mutant: the file is generated before the conflict is reported
create_regenerates(dir, request, exists) ==
    IF exists
    THEN [Created(dir, request) EXCEPT !.resp = Conflict(dir, request).resp]
    ELSE Created(dir, request)

\* mutant: the write creates the file exclusively, and a path that has
\* appeared since the test is a conflict
create_exclusive(dir, request, exists) ==
    IF exists \/ PathExists(dir, FileNameOf(request.url))
    THEN Conflict(dir, request)
    ELSE Created(dir, request)

\* create_qr_code, given what its test qr_path.exists() answered
create_qr_code(dir, request, exists) ==
    IF exists THEN Conflict(dir, request) ELSE Created(dir, request)

\* mutant: fname[:-3]
StemShort(fname) == SubSeq(fname, 1, Len(fname) - 3)

\* fname[:-4]
Stem(fname) == SubSeq(fname, 1, Len(fname) - 4)

ListEntry(fname) ==
    [message |-> "QR code available",
     qr_code_url |-> decode_filename_to_url(Stem(fname)).url,
     links |-> generate_links("list", fname, SERVER_BASE_URL, download_url_of(fname))]

\* list_qr_codes_endpoint, given the names list_qr_codes returned: one entry
\* per name; an exception of decode_filename_to_url leaves the comprehension
\* and the handler, and the framework answers 500
list_qr_codes_endpoint(dir, qr_files) ==
    IF \A i \in 1..Len(qr_files) : decode_filename_to_url(Stem(qr_files[i])).ok
    THEN [dir |-> dir, calls |-> 0,
          resp |-> [status |-> 200,
                    body |-> [i \in 1..Len(qr_files) |-> ListEntry(qr_files[i])]]]
    ELSE [dir |-> dir, calls |-> 0, resp |-> [status |-> 500, error |-> "FormatError"]]

NotFound(dir) ==
    [dir |-> dir, calls |-> 0, resp |-> [status |-> 404, detail |-> "QR code not found"]]

\* retrieve_qr_code
retrieve_qr_code(dir, qr_filename) ==
    IF ~PathIsFile(dir, qr_filename)
    THEN NotFound(dir)
    ELSE [dir |-> dir, calls |-> 0,
          resp |-> [status |-> 200, media_type |-> "image/png",
                    file |-> dir[qr_filename]]]

\* delete_qr_code(qr_path), whose exception nothing catches (the framework
\* answers 500), then 204 with no body
Removed(dir, qr_filename) ==
    LET r == delete_qr_code(dir, qr_filename)
    IN IF r.ok
       THEN [dir |-> r.dir, calls |-> 0, resp |-> [status |-> 204]]
       ELSE [dir |-> r.dir, calls |-> 0,
             resp |-> [status |-> 500, error |-> "FileNotFoundError"]]

\* mutant: the is_file test is left out
delete_unchecked(dir, qr_filename, is_file) == Removed(dir, qr_filename)

\* mutant: 204 without the call of delete_qr_code
delete_keeps(dir, qr_filename, is_file) ==
    IF ~is_file THEN NotFound(dir)
    ELSE [dir |-> dir, calls |-> 0, resp |-> [status |-> 204]]

\* delete_qr_code_endpoint, given what its test qr_path.is_file() answered
delete_qr_code_endpoint(dir, qr_filename, is_file) ==
    IF ~is_file THEN NotFound(dir) ELSE Removed(dir, qr_filename)

\* the response leaves the handler: the directory and the call counter take
\* the outcome, and the log keeps the request, what its existence test saw,
\* the directory when the handler began and when it ended
Complete(w, request, before, seen, outcome) ==
    /\ fs' = outcome.dir
    /\ genCalls' = genCalls + outcome.calls
    /\ log' = Append(log, [w |-> w, rq |-> request, resp |-> outcome.resp,
                           seen |-> seen, gens |-> outcome.calls,
                           before |-> before, after |-> outcome.dir])

----------------------------------------------------------------------------
(* Spec: requests one after another, each handler whole, an empty          *)
(* directory first                                                         *)

Waiting == [pc |-> "done", rq |-> [op |-> "none"], seen |-> FALSE, before |-> EmptyDir]

Init ==
    /\ fs = EmptyDir
    /\ wk = [w \in Workers |-> Waiting]
    /\ log = <<>>
    /\ genCalls = 0

Create(request) ==
    /\ Len(log) < MaxOps
    /\ LET exists == PathExists(fs, FileNameOf(request.url))
       IN Complete(1, request, fs, exists, create_qr_code(fs, request, exists))
    /\ UNCHANGED wk

List(request) ==
    /\ Len(log) < MaxOps
    /\ \E qr_files \in list_qr_codes(fs) :
          Complete(1, request, fs, FALSE, list_qr_codes_endpoint(fs, qr_files))
    /\ UNCHANGED wk

Retrieve(request) ==
    /\ Len(log) < MaxOps
    /\ Complete(1, request, fs, PathIsFile(fs, request.qr_filename),
                retrieve_qr_code(fs, request.qr_filename))
    /\ UNCHANGED wk

Delete(request) ==
    /\ Len(log) < MaxOps
    /\ LET is_file == PathIsFile(fs, request.qr_filename)
       IN Complete(1, request, fs, is_file,
                   delete_qr_code_endpoint(fs, request.qr_filename, is_file))
    /\ UNCHANGED wk

Next ==
    \/ \E request \in CreateReqs : Create(request)
    \/ \E request \in ListReqs : List(request)
    \/ \E request \in RetrieveReqs : Retrieve(request)
    \/ \E request \in DeleteReqs : Delete(request)

Spec == Init /\ [][Next]_vars

----------------------------------------------------------------------------
(* SpecRace: two workers, one request each.  A handler's existence test    *)
(* and what it does next are two steps, and the steps of the two workers   *)
(* interleave.  The directory starts in any state Spec reaches.            *)

\* the PNG generate_qr_code writes for a request
PngFile(url, size) ==
    [kind |-> "file", data |-> url, box_size |-> size,
     fill |-> FILL_COLOR, back |-> BACK_COLOR]

DirStates ==
    { d \in [Names -> {Absent} \cup { PngFile(u, z) : u \in URLS, z \in Sizes }] :
        \A n \in Names :
            d[n] # Absent => \E u \in URLS : n = FileNameOf(u) /\ d[n].data = u }

\* the worker at the first line of the handler of its request
Started(request, dir) == [pc |-> request.op, rq |-> request, seen |-> FALSE, before |-> dir]

InitRace ==
    /\ fs \in DirStates
    /\ \E r1, r2 \in Requests :
          wk = [w \in Workers |-> Started(IF w = 1 THEN r1 ELSE r2, fs)]
    /\ log = <<>>
    /\ genCalls = 0

Finish(w, outcome) ==
    /\ Complete(w, wk[w].rq, wk[w].before, wk[w].seen, outcome)
    /\ wk' = [wk EXCEPT ![w].pc = "done"]

\* create_qr_code up to the test of qr_path.exists()
CreateCheck(w) ==
    /\ wk[w].pc = "create"
    /\ wk' = [wk EXCEPT ![w].pc = "create_checked",
                        ![w].seen = PathExists(fs, FileNameOf(wk[w].rq.url))]
    /\ UNCHANGED <<fs, log, genCalls>>

\* create_qr_code from the test on
CreateFinish(w) ==
    /\ wk[w].pc = "create_checked"
    /\ Finish(w, create_qr_code(fs, wk[w].rq, wk[w].seen))

ListRun(w) ==
    /\ wk[w].pc = "list"
    /\ \E qr_files \in list_qr_codes(fs) :
          Finish(w, list_qr_codes_endpoint(fs, qr_files))

RetrieveRun(w) ==
    /\ wk[w].pc = "retrieve"
    /\ Finish(w, retrieve_qr_code(fs, wk[w].rq.qr_filename))

\* delete_qr_code_endpoint up to the test of qr_path.is_file()
DeleteCheck(w) ==
    /\ wk[w].pc = "delete"
    /\ wk' = [wk EXCEPT ![w].pc = "delete_checked",
                        ![w].seen = PathIsFile(fs, wk[w].rq.qr_filename)]
    /\ UNCHANGED <<fs, log, genCalls>>

\* delete_qr_code_endpoint from the test on
DeleteFinish(w) ==
    /\ wk[w].pc = "delete_checked"
    /\ Finish(w, delete_qr_code_endpoint(fs, wk[w].rq.qr_filename, wk[w].seen))

NextRace ==
    \E w \in Workers :
        \/ CreateCheck(w)
        \/ CreateFinish(w)
        \/ ListRun(w)
        \/ RetrieveRun(w)
        \/ DeleteCheck(w)
        \/ DeleteFinish(w)

SpecRace == InitRace /\ [][NextRace]_vars

----------------------------------------------------------------------------
(* SpecEnv: Spec, and an external actor with access to the directory.  Its *)
(* change is made between two requests and is logged like one.             *)

External(what, name, entry) ==
    /\ Len(log) < MaxOps
    /\ fs[name] = Absent
    /\ Complete(0, [op |-> what, qr_filename |-> name], fs, FALSE,
                [dir |-> [fs EXCEPT ![name] = entry], calls |-> 0,
                 resp |-> [status |-> 0]])
    /\ UNCHANGED wk

\* a file is put under a .png name that is no encoded URL
ExternalPut == External("put", MalformedName, ForeignFile)

\* a directory is made under the name of a URL's file
ExternalMkdir(name) == External("mkdir", name, Directory)

NextEnv ==
    \/ Next
    \/ ExternalPut
    \/ \E u \in URLS : ExternalMkdir(FileNameOf(u))

SpecEnv == Init /\ [][NextEnv]_vars

----------------------------------------------------------------------------
(* Reading the log *)

LogIdx == 1..Len(log)

\* the file names of the URLs, computed once
FileNames == [u \in URLS |-> FileNameOf(u)]

NameOf(u) == FileNames[u]

Present(dir) == { n \in Names : dir[n] # Absent }

Is201Create(i, u) ==
    /\ log[i].rq.op = "create"
    /\ log[i].rq.url = u
    /\ log[i].resp.status = 201

Is204Delete(i, n) ==
    /\ log[i].rq.op = "delete"
    /\ log[i].rq.qr_filename = n
    /\ log[i].resp.status = 204

\* no delete of n succeeded strictly between requests i and j
NoDeleteBetween(i, j, n) == \A k \in (i + 1)..(j - 1) : ~Is204Delete(k, n)

\* no create mapping to n succeeded strictly between requests i and j
NoCreateBetween(i, j, n) ==
    \A k \in (i + 1)..(j - 1) :
        ~(log[k].rq.op = "create" /\ NameOf(log[k].rq.url) = n
          /\ log[k].resp.status = 201)

\* what follows the last "/" of a URL
LastComponent(url) ==
    LET slashes == { i \in 1..Len(url) : url[i] = "/" }
    IN IF slashes = {} THEN url
       ELSE SubSeq(url, (CHOOSE i \in slashes : \A k \in slashes : k <= i) + 1, Len(url))

----------------------------------------------------------------------------
(* Claims checked under Spec *)

\* C1: a create of a URL whose file is Absent responds 201 and writes the
\* file; a following create of the same URL, of any size, with no delete
\* in between responds 409, calls generate_qr_code not at all, and leaves
\* the file of the first create as it was written.
C1_DuplicateCreate ==
    /\ genCalls = Cardinality({ i \in LogIdx : log[i].gens > 0 })
    /\ \A j \in LogIdx :
        log[j].rq.op = "create" =>
            LET u == log[j].rq.url
                n == NameOf(u)
            IN /\ log[j].before[n] = Absent =>
                    /\ log[j].resp.status = 201
                    /\ log[j].gens = 1
                    /\ log[j].after[n] = PngFile(u, log[j].rq.size)
               /\ \A i \in 1..(j - 1) :
                    Is201Create(i, u) /\ NoDeleteBetween(i, j, n) =>
                        /\ log[j].resp.status = 409
                        /\ log[j].gens = 0
                        /\ log[j].after[n] = log[i].after[n]
                        /\ log[j].after[n] = PngFile(u, log[i].rq.size)

C1_Witness ==
    \E i, j \in LogIdx :
        /\ j = i + 1
        /\ log[i].rq.op = "create" /\ log[i].resp.status = 201
        /\ log[j].rq.op = "create" /\ log[j].resp.status = 409
        /\ log[j].rq.url = log[i].rq.url
        /\ log[j].rq.size # log[i].rq.size
        /\ fs[NameOf(log[i].rq.url)].box_size = log[i].rq.size

\* C2: a retrieve or a delete of a filename that is Absent responds 404, no
\* server fault, and leaves the directory as it was; so it is for a name
\* never created, and for a name deleted with 204 and not created since.
C2_AbsentIs404 ==
    \A j \in LogIdx :
        log[j].rq.op \in {"retrieve", "delete"} =>
            LET n == log[j].rq.qr_filename
            IN /\ log[j].before[n] = Absent =>
                    /\ log[j].resp.status = 404
                    /\ log[j].after = log[j].before
               /\ (\A i \in 1..(j - 1) : ~(log[i].rq.op = "create"
                                          /\ NameOf(log[i].rq.url) = n)) =>
                    log[j].resp.status = 404
               /\ \A i \in 1..(j - 1) :
                    Is204Delete(i, n) /\ NoCreateBetween(i, j, n) =>
                        log[j].resp.status = 404

C2_Witness ==
    \E i, j, k \in LogIdx :
        /\ i < j /\ j < k
        /\ Is204Delete(i, log[i].rq.qr_filename)
        /\ log[j].rq = [op |-> "delete", qr_filename |-> log[i].rq.qr_filename]
        /\ log[j].resp.status = 404
        /\ log[k].rq = [op |-> "retrieve", qr_filename |-> log[i].rq.qr_filename]
        /\ log[k].resp.status = 404

\* the URLs created with 201 before request j and not deleted with 204 since
Live(j) ==
    { u \in URLS : \E i \in 1..(j - 1) :
        Is201Create(i, u) /\ NoDeleteBetween(i, j, NameOf(u)) }

\* C3: a list responds with exactly one entry per file Present, without
\* duplicates, and the URLs decoded from the listed names are the URLs
\* created and not deleted since.
C3_ListReflectsDirectory ==
    \A j \in LogIdx :
        log[j].rq.op = "list" =>
            /\ log[j].resp.status = 200
            /\ LET body == log[j].resp.body
                   urls == { body[k].qr_code_url : k \in 1..Len(body) }
               IN /\ Len(body) = Cardinality(Present(log[j].before))
                  /\ Cardinality(urls) = Len(body)
                  /\ urls \subseteq URLS
                  /\ { NameOf(u) : u \in urls } = Present(log[j].before)
                  /\ urls = Live(j)

C3_Witness ==
    \E j \in LogIdx :
        /\ log[j].rq.op = "list"
        /\ log[j].resp.status = 200
        /\ Len(log[j].resp.body) = 2
        /\ { log[j].resp.body[k].qr_code_url : k \in 1..2 } = URLS

\* C4: after a create responded 201, a retrieve of the last path component
\* of its qr_code_url, which is the encoded URL with ".png", responds 200
\* with the bytes the create wrote, as long as that name is not deleted.
C4_CreateThenRetrieve ==
    \A i \in LogIdx :
        (log[i].rq.op = "create" /\ log[i].resp.status = 201) =>
            LET n == LastComponent(log[i].resp.qr_code_url)
            IN /\ n = NameOf(log[i].rq.url)
               /\ \A j \in (i + 1)..Len(log) :
                    ( /\ log[j].rq.op = "retrieve"
                      /\ log[j].rq.qr_filename = n
                      /\ NoDeleteBetween(i, j, n) ) =>
                        /\ log[j].resp.status = 200
                        /\ log[j].resp.media_type = "image/png"
                        /\ log[j].resp.file = PngFile(log[i].rq.url, log[i].rq.size)

C4_Witness ==
    \E i, j, k \in LogIdx :
        /\ i < j /\ j < k
        /\ log[i].rq.op = "create" /\ log[i].resp.status = 201
        /\ log[j].rq.op = "retrieve" /\ log[j].resp.status = 200
        /\ log[k].rq.op = "retrieve" /\ log[k].resp.status = 200
        /\ log[j].rq.qr_filename = LastComponent(log[i].resp.qr_code_url)
        /\ log[k].rq.qr_filename = log[j].rq.qr_filename

\* C5: every entry of the directory is Absent or a file; between requests
\* nothing changes; a request changes an entry only from Absent to a file,
\* by a 201 create of the URL of that name, or from a file to Absent, by a
\* 204 delete of that name.
C5_TwoStatesAndFrame ==
    /\ \A n \in Names : fs[n] = Absent \/ fs[n].kind = "file"
    /\ \A j \in LogIdx :
        /\ log[j].before = (IF j = 1 THEN EmptyDir ELSE log[j - 1].after)
        /\ \A n \in Names :
            log[j].after[n] # log[j].before[n] =>
                \/ /\ log[j].rq.op = "create"
                   /\ NameOf(log[j].rq.url) = n
                   /\ log[j].resp.status = 201
                   /\ log[j].before[n] = Absent
                   /\ log[j].after[n].kind = "file"
                \/ /\ log[j].rq.op = "delete"
                   /\ log[j].rq.qr_filename = n
                   /\ log[j].resp.status = 204
                   /\ log[j].before[n].kind = "file"
                   /\ log[j].after[n] = Absent
    /\ fs = (IF log = <<>> THEN EmptyDir ELSE log[Len(log)].after)

C5_Witness ==
    \E i, j, k \in LogIdx :
        /\ log[i].rq.op = "create" /\ log[i].resp.status = 201
        /\ log[j].rq.op = "create" /\ log[j].resp.status = 409
        /\ log[k].rq.op = "delete" /\ log[k].resp.status = 204
        /\ log[k].before # log[k].after
        /\ Present(log[k].before) = { NameOf(u) : u \in URLS }

\* a create of u that responded 201 or a delete of u's name that responded 204
Changes(i, u) == Is201Create(i, u) \/ Is204Delete(i, NameOf(u))

\* C9: a delete that succeeds responds 204 with nothing else and leaves the
\* name Absent; the next create of the URL of that name responds 201 and the
\* file is there again; for one URL the 201 creates and the 204 deletes
\* alternate, a create first.
C9_DeleteThenCreateAgain ==
    \A j \in LogIdx :
        /\ \A n \in Names :
            Is204Delete(j, n) =>
                /\ log[j].resp = [status |-> 204]
                /\ log[j].after[n] = Absent
        /\ log[j].rq.op = "create" =>
            LET u == log[j].rq.url
                n == NameOf(u)
            IN \A i \in 1..(j - 1) :
                ( /\ Is204Delete(i, n)
                  /\ \A k \in (i + 1)..(j - 1) :
                        ~(log[k].rq.op = "create" /\ log[k].rq.url = u) ) =>
                    /\ log[j].resp.status = 201
                    /\ log[j].after[n].kind = "file"
        /\ \A u \in URLS :
            Changes(j, u) =>
                LET earlier == { i \in 1..(j - 1) : Changes(i, u) }
                IN IF earlier = {}
                   THEN Is201Create(j, u)
                   ELSE LET i == CHOOSE x \in earlier : \A y \in earlier : y <= x
                        IN Is201Create(i, u) # Is201Create(j, u)

C9_Witness ==
    \E u \in URLS :
        /\ Len(log) >= 4
        /\ Is201Create(1, u)
        /\ Is204Delete(2, NameOf(u))
        /\ Is201Create(3, u)
        /\ Is204Delete(4, NameOf(u))

----------------------------------------------------------------------------
(* Claims checked under SpecRace *)

\* both workers have responded, to the same kind of request for one name
BothDone(op) ==
    /\ Len(log) = 2
    /\ log[1].rq.op = op
    /\ log[2].rq.op = op
    /\ IF op = "create"
       THEN log[1].rq.url = log[2].rq.url
       ELSE log[1].rq.qr_filename = log[2].rq.qr_filename

\* C6: two deletes of one Present filename run at once, in any interleaving
\* of their tests and removals: the file ends Absent, one of them responds
\* 204 and the other 404, never a server fault.
C6_ConcurrentDeletes ==
    (BothDone("delete") /\ PathIsFile(log[1].before, log[1].rq.qr_filename)) =>
        /\ fs[log[1].rq.qr_filename] = Absent
        /\ { log[1].resp.status, log[2].resp.status } = {204, 404}

\* C7: when two creates of one URL both find the path absent, each of them
\* calls generate_qr_code and responds 201, and the file is the one the
\* later of the two wrote.
C7_RacingCreatesBothSucceed ==
    (BothDone("create") /\ ~log[1].seen /\ ~log[2].seen) =>
        /\ log[1].resp.status = 201
        /\ log[2].resp.status = 201
        /\ genCalls = 2
        /\ fs[NameOf(log[2].rq.url)] = PngFile(log[2].rq.url, log[2].rq.size)

C7_Witness ==
    /\ BothDone("create")
    /\ ~log[1].seen /\ ~log[2].seen
    /\ log[1].rq.size # log[2].rq.size
    /\ log[1].resp.status = 201 /\ log[2].resp.status = 201
    /\ log[1].after[NameOf(log[1].rq.url)] # fs[NameOf(log[1].rq.url)]
    /\ genCalls = 2

----------------------------------------------------------------------------
(* Claims checked under SpecEnv *)

\* C8: with a .png file in the directory whose stem decodes to no URL, a
\* list still responds 200 and has an entry for every well-formed file.
C8_ListSurvivesMalformedName ==
    \A j \in LogIdx :
        (log[j].rq.op = "list" /\ PathIsFile(log[j].before, MalformedName)) =>
            /\ log[j].resp.status = 200
            /\ \A n \in Present(log[j].before) :
                Decodable(Stem(n)) =>
                    \E k \in 1..Len(log[j].resp.body) :
                        log[j].resp.body[k].qr_code_url
                            = decode_filename_to_url(Stem(n)).url

\* C10: in one directory state, whatever is at a path, a create of the URL
\* of a name responds 409 exactly when a retrieve of the name responds 200
\* and a delete of it responds 204.
C10_ExistenceChecksAgree ==
    \A i, j \in LogIdx :
        ( /\ log[i].rq.op = "create"
          /\ log[j].rq.op \in {"retrieve", "delete"}
          /\ log[j].rq.qr_filename = NameOf(log[i].rq.url)
          /\ log[j].before[log[j].rq.qr_filename]
                = log[i].before[log[j].rq.qr_filename] ) =>
            (log[i].resp.status = 409 <=> log[j].resp.status \in {200, 204})

====
